---- MODULE Spec2Model ----
(***************************************************************************)
(* Model of code/fmri_utils/func_preproc/volume_realignment.py:            *)
(* volume_4D_realign (the per-volume realignment loop),                    *)
(* plot_realignment_parameters (the unit conversion for the plot) and the  *)
(* module's top-level sequence realign -> plot -> export.                  *)
(*                                                                         *)
(* Numbers.  The arrays hold floats.  The only arithmetic the script does  *)
(* on them is negation, multiplication by the voxel size and np.rad2deg,   *)
(* i.e. multiplication by c = 180/pi.  An entry is therefore kept exactly  *)
(* as the monomial a * c^k, written [a |-> a, k |-> k] (k = 0 when a = 0). *)
(*                                                                         *)
(* Names.  A Python local is unbound until an assignment to it executes;   *)
(* `bound` is the set of names bound so far, and reading a name outside it *)
(* raises NameError.                                                       *)
(***************************************************************************)
EXTENDS Integers, Sequences, FiniteSets, TLC

VARIABLES
    pc,             \* position of the script / of the function it called
    img,            \* the 4D image file: its series of volumes
    reference,      \* argument `reference`
    smooth_fwhm,    \* argument `smooth_fwhm`
    bound,          \* names of volume_4D_realign's locals that are bound
    data,           \* img.get_data()
    data_smooth,    \* img_smooth.get_data() (meaningful when bound)
    n_vols,
    ref_vol,        \* (meaningful when bound)
    realign_params, \* n_vols x 6 array
    realigned_data, \* n_vols volumes
    i,              \* loop index
    guess_params,
    best_params,
    resampled_vol,
    calls,          \* the optimizer and resampler calls made, in order
    err,            \* the exception that ended the run, "none" if none
    saved,          \* what nib.save wrote: <<>> or <<series>>
    rp,             \* the script's rp: the array volume_4D_realign returned
    shown,          \* the arrays plot_realignment_parameters plotted, in order
    exported        \* what np.savetxt wrote: <<>> or <<array>>

vars == <<pc, img, reference, smooth_fwhm, bound, data, data_smooth, n_vols,
          ref_vol, realign_params, realigned_data, i, guess_params,
          best_params, resampled_vol, calls, err, saved, rp, shown, exported>>

----------------------------------------------------------------------------
(* Bounds of the model and constants of the program *)

MaxN == 3
MaxReference == 2
MaxTrans == 1
MaxRot == 1
MaxPlotCalls == 2

ScriptFwhm == 5
VoxelSize == 3

----------------------------------------------------------------------------
(* Numbers and vectors *)

Num(n) == [a |-> n, k |-> 0]

Neg(x) == [x EXCEPT !.a = 0 - x.a]

Times(x, c) == [x EXCEPT !.a = x.a * c]

rad2deg(x) == IF x.a = 0 THEN x ELSE [x EXCEPT !.k = x.k + 1]

zeros6 == [c \in 1..6 |-> Num(0)]

NegVec(v) == [c \in 1..Len(v) |-> Neg(v[c])]

zerosN6(n) == [r \in 1..n |-> zeros6]

----------------------------------------------------------------------------
(* Volumes and the external collaborators *)

OrigVol(j) == [kind |-> "orig", idx |-> j, fwhm |-> 0]

ZeroVol == [kind |-> "zeros", idx |-> 0 - 1, fwhm |-> 0]

ImgAffine == "img.affine"

smooth_image(series, fwhm) ==
    [j \in 1..Len(series) |-> [series[j] EXCEPT !.kind = "smooth", !.fwhm = fwhm]]

apply_coord_mapping(params, ref, vol, affine) ==
    [kind |-> "resampled", params |-> params, ref |-> ref, moving |-> vol,
     affine |-> affine]

OptimizerResults ==
    { <<Num(t), Num(0), Num(0 - t), Num(r), Num(0), Num(0 - r)>> :
        t \in (0 - MaxTrans)..MaxTrans, r \in 0..MaxRot }

SmoothWidths == {0, ScriptFwhm}

Series(n) == [j \in 1..n |-> OrigVol(j - 1)]

----------------------------------------------------------------------------
(* volume_4D_realign *)

Init ==
    /\ pc = "start"
    /\ img \in {Series(n) : n \in 1..MaxN}
    /\ reference \in 0..MaxReference
    /\ smooth_fwhm \in SmoothWidths
    /\ bound = {}
    /\ data = <<>>
    /\ data_smooth = <<>>
    /\ n_vols = 0
    /\ ref_vol = ZeroVol
    /\ realign_params = <<>>
    /\ realigned_data = <<>>
    /\ i = 0
    /\ guess_params = zeros6
    /\ best_params = zeros6
    /\ resampled_vol = ZeroVol
    /\ calls = <<>>
    /\ err = "none"
    /\ saved = <<>>
    /\ rp = <<>>
    /\ shown = <<>>
    /\ exported = <<>>

Raise(kind) ==
    /\ pc' = "raised"
    /\ err' = kind

\* lines 64-72: load, smooth "if designated", get the data
LoadSmoothed ==
    IF smooth_fwhm > 0
    THEN /\ data_smooth' = smooth_image(img, smooth_fwhm)
         /\ bound' = bound \cup {"img_smooth", "data_smooth", "data"}
    ELSE /\ data_smooth' = data_smooth
         /\ bound' = bound \cup {"data"}

Load ==
    /\ pc = "start"
    /\ LoadSmoothed
    /\ data' = img
    /\ pc' = "select"
    /\ UNCHANGED <<img, reference, smooth_fwhm, n_vols, ref_vol,
                   realign_params, realigned_data, i, guess_params,
                   best_params, resampled_vol, calls, err, saved, rp, shown,
                   exported>>

\* mutant of mid_index: the lower of the two central indices
mid_index_lower(n) == (n - 1) \div 2

\* line 85: int(n_vols/2), true division then truncation
mid_index(n) == n \div 2

\* lines 82-87: if reference == 0 / elif reference == 1 / (no else)
SelectReference ==
    /\ pc = "select"
    /\ n_vols' = Len(data)
    /\ IF reference = 0
       THEN /\ ref_vol' = data[1]
            /\ bound' = bound \cup {"ref_vol"}
       ELSE IF reference = 1
            THEN /\ ref_vol' = data[mid_index(Len(data)) + 1]
                 /\ bound' = bound \cup {"mid_index", "mid_vol", "ref_vol"}
            ELSE /\ ref_vol' = ref_vol
                 /\ bound' = bound
    /\ pc' = "alloc"
    /\ UNCHANGED <<img, reference, smooth_fwhm, data, data_smooth,
                   realign_params, realigned_data, i, guess_params,
                   best_params, resampled_vol, calls, err, saved, rp, shown,
                   exported>>

\* lines 91-93: the two output arrays, and the loop starts
Alloc ==
    /\ pc = "alloc"
    /\ realign_params' = zerosN6(n_vols)
    /\ realigned_data' = [j \in 1..n_vols |-> ZeroVol]
    /\ i' = 0
    /\ pc' = "loop"
    /\ UNCHANGED <<img, reference, smooth_fwhm, bound, data, data_smooth,
                   n_vols, ref_vol, guess_params, best_params, resampled_vol,
                   calls, err, saved, rp, shown, exported>>

\* mutant of Guess: the previous row without the sign flip
GuessNoNegation(params, idx) ==
    IF idx > 0 THEN params[idx] ELSE zeros6

\* lines 103-106: the starting point handed to the optimizer
Guess(params, idx) ==
    IF idx > 0 THEN NegVec(params[idx]) ELSE zeros6

\* mutant of LoopGuess: a fast path that skips the optimizer and the
\* resampler for the reference volume
LoopGuessSkipReference ==
    /\ pc = "loop"
    /\ i < n_vols
    /\ IF data[i + 1] = ref_vol
       THEN /\ realign_params' = [realign_params EXCEPT ![i + 1] = zeros6]
            /\ realigned_data' = [realigned_data EXCEPT ![i + 1] = data[i + 1]]
            /\ i' = i + 1
            /\ pc' = "loop"
            /\ guess_params' = guess_params
       ELSE /\ guess_params' = Guess(realign_params, i)
            /\ pc' = "optimize"
            /\ UNCHANGED <<realign_params, realigned_data, i>>
    /\ UNCHANGED <<img, reference, smooth_fwhm, bound, data, data_smooth,
                   n_vols, ref_vol, best_params, resampled_vol, calls, err,
                   saved, rp, shown, exported>>

\* line 93 with another volume to do, lines 103-106
LoopGuess ==
    /\ pc = "loop"
    /\ i < n_vols
    /\ guess_params' = Guess(realign_params, i)
    /\ pc' = "optimize"
    /\ UNCHANGED <<img, reference, smooth_fwhm, bound, data, data_smooth,
                   n_vols, ref_vol, realign_params, realigned_data, i,
                   best_params, resampled_vol, calls, err, saved, rp, shown,
                   exported>>

\* line 93 with the range exhausted
LoopExit ==
    /\ pc = "loop"
    /\ i >= n_vols
    /\ pc' = "save"
    /\ UNCHANGED <<img, reference, smooth_fwhm, bound, data, data_smooth,
                   n_vols, ref_vol, realign_params, realigned_data, i,
                   guess_params, best_params, resampled_vol, calls, err,
                   saved, rp, shown, exported>>

OptimizeArgsBound == {"ref_vol", "data_smooth", "img_smooth"} \subseteq bound

OptimizeCall(ok, out) ==
    [op |-> "optimize", idx |-> i, ref |-> ref_vol,
     moving |-> data_smooth[i + 1], affine |-> ImgAffine,
     vec |-> guess_params, ok |-> ok, out |-> out]

\* line 109: an argument is an unbound local
OptimizeNameError ==
    /\ pc = "optimize"
    /\ ~OptimizeArgsBound
    /\ Raise("NameError")
    /\ UNCHANGED <<img, reference, smooth_fwhm, bound, data, data_smooth,
                   n_vols, ref_vol, realign_params, realigned_data, i,
                   guess_params, best_params, resampled_vol, calls, saved, rp,
                   shown, exported>>

\* line 109: optimize_map_vol returns a best-fit vector
OptimizeOk ==
    /\ pc = "optimize"
    /\ OptimizeArgsBound
    /\ \E best \in OptimizerResults :
         /\ best_params' = best
         /\ calls' = Append(calls, OptimizeCall(TRUE, <<best>>))
    /\ pc' = "resample"
    /\ UNCHANGED <<img, reference, smooth_fwhm, bound, data, data_smooth,
                   n_vols, ref_vol, realign_params, realigned_data, i,
                   guess_params, resampled_vol, err, saved, rp, shown,
                   exported>>

\* mutant of OptimizeFail: the failure is caught and the starting guess is
\* carried on as if it were the estimate
OptimizeFailSubstituted ==
    /\ pc = "optimize"
    /\ OptimizeArgsBound
    /\ calls' = Append(calls, OptimizeCall(FALSE, <<>>))
    /\ best_params' = guess_params
    /\ pc' = "resample"
    /\ UNCHANGED <<img, reference, smooth_fwhm, bound, data, data_smooth,
                   n_vols, ref_vol, realign_params, realigned_data, i,
                   guess_params, resampled_vol, err, saved, rp, shown,
                   exported>>

\* line 109: optimize_map_vol raises; nothing in the loop catches it
OptimizeFail ==
    /\ pc = "optimize"
    /\ OptimizeArgsBound
    /\ calls' = Append(calls, OptimizeCall(FALSE, <<>>))
    /\ Raise("OptimizerError")
    /\ UNCHANGED <<img, reference, smooth_fwhm, bound, data, data_smooth,
                   n_vols, ref_vol, realign_params, realigned_data, i,
                   guess_params, best_params, resampled_vol, saved, rp, shown,
                   exported>>

\* mutant of ResampleMoving: the smoothed volume is resampled
ResampleMovingSmoothed == data_smooth[i + 1]

\* line 113: the volume the resampler is given
ResampleMoving == data[i + 1]

ResampleCall(ok) ==
    [op |-> "resample", idx |-> i, ref |-> ref_vol,
     moving |-> ResampleMoving, affine |-> ImgAffine,
     vec |-> best_params, ok |-> ok, out |-> <<>>]

\* line 113: apply_coord_mapping returns the resampled volume
ResampleOk ==
    /\ pc = "resample"
    /\ resampled_vol' =
         apply_coord_mapping(best_params, ref_vol, ResampleMoving, ImgAffine)
    /\ calls' = Append(calls, ResampleCall(TRUE))
    /\ pc' = "accumulate"
    /\ UNCHANGED <<img, reference, smooth_fwhm, bound, data, data_smooth,
                   n_vols, ref_vol, realign_params, realigned_data, i,
                   guess_params, best_params, err, saved, rp, shown, exported>>

\* line 113: apply_coord_mapping raises; nothing in the loop catches it
ResampleFail ==
    /\ pc = "resample"
    /\ calls' = Append(calls, ResampleCall(FALSE))
    /\ Raise("ResamplerError")
    /\ UNCHANGED <<img, reference, smooth_fwhm, bound, data, data_smooth,
                   n_vols, ref_vol, realign_params, realigned_data, i,
                   guess_params, best_params, resampled_vol, saved, rp, shown,
                   exported>>

\* mutant of Accumulate: the row stored is the starting guess
AccumulateStoresGuess ==
    /\ pc = "accumulate"
    /\ realign_params' = [realign_params EXCEPT ![i + 1] = guess_params]
    /\ realigned_data' = [realigned_data EXCEPT ![i + 1] = resampled_vol]
    /\ i' = i + 1
    /\ pc' = "loop"
    /\ UNCHANGED <<img, reference, smooth_fwhm, bound, data, data_smooth,
                   n_vols, ref_vol, guess_params, best_params, resampled_vol,
                   calls, err, saved, rp, shown, exported>>

\* lines 117-122: store the row and the volume, next index
Accumulate ==
    /\ pc = "accumulate"
    /\ realign_params' = [realign_params EXCEPT ![i + 1] = best_params]
    /\ realigned_data' = [realigned_data EXCEPT ![i + 1] = resampled_vol]
    /\ i' = i + 1
    /\ pc' = "loop"
    /\ UNCHANGED <<img, reference, smooth_fwhm, bound, data, data_smooth,
                   n_vols, ref_vol, guess_params, best_params, resampled_vol,
                   calls, err, saved, rp, shown, exported>>

\* lines 124-125: the image written is built from `data`
Save ==
    /\ pc = "save"
    /\ saved' = <<data>>
    /\ pc' = "return"
    /\ UNCHANGED <<img, reference, smooth_fwhm, bound, data, data_smooth,
                   n_vols, ref_vol, realign_params, realigned_data, i,
                   guess_params, best_params, resampled_vol, calls, err, rp,
                   shown, exported>>

\* line 127 and line 163: the script binds rp to the returned array
Return ==
    /\ pc = "return"
    /\ rp' = realign_params
    /\ pc' = "returned"
    /\ UNCHANGED <<img, reference, smooth_fwhm, bound, data, data_smooth,
                   n_vols, ref_vol, realign_params, realigned_data, i,
                   guess_params, best_params, resampled_vol, calls, err,
                   saved, shown, exported>>

----------------------------------------------------------------------------
(* plot_realignment_parameters and the script's last two lines *)

\* lines 133-135: rp_adj = rp is the same array, so both assignments write
\* into the caller's array and the second reads what the first left
ConvertRow(row) ==
    [c \in 1..6 |-> IF c <= 3 THEN Times(row[c], VoxelSize) ELSE rad2deg(row[c])]

ConvertInPlace(arr) == [r \in 1..Len(arr) |-> ConvertRow(arr[r])]

\* lines 129-153: with mm true the conversion runs and rp_adj is plotted;
\* otherwise rp_adj is never bound and line 141 raises
plot_realignment_parameters(mm) ==
    IF mm
    THEN /\ rp' = ConvertInPlace(rp)
         /\ shown' = Append(shown, ConvertInPlace(rp))
         /\ err' = err
    ELSE /\ rp' = rp
         /\ shown' = shown
         /\ err' = "NameError"

\* line 164: plot_realignment_parameters(rp), mm = True by default
Plot ==
    /\ pc = "returned"
    /\ plot_realignment_parameters(TRUE)
    /\ pc' = "plotted"
    /\ UNCHANGED <<img, reference, smooth_fwhm, bound, data, data_smooth,
                   n_vols, ref_vol, realign_params, realigned_data, i,
                   guess_params, best_params, resampled_vol, calls, saved,
                   exported>>

\* line 165: np.savetxt(..., rp)
Export ==
    /\ pc = "plotted"
    /\ exported' = <<rp>>
    /\ pc' = "exported"
    /\ UNCHANGED <<img, reference, smooth_fwhm, bound, data, data_smooth,
                   n_vols, ref_vol, realign_params, realigned_data, i,
                   guess_params, best_params, resampled_vol, calls, err,
                   saved, rp, shown>>

Next ==
    \/ Load
    \/ SelectReference
    \/ Alloc
    \/ LoopGuess
    \/ LoopExit
    \/ OptimizeNameError
    \/ OptimizeOk
    \/ OptimizeFail
    \/ ResampleOk
    \/ ResampleFail
    \/ Accumulate
    \/ Save
    \/ Return
    \/ Plot
    \/ Export

Spec == Init /\ [][Next]_vars

----------------------------------------------------------------------------
(* plot_realignment_parameters on its own: a caller holding a trajectory    *)
(* (as returned, kept in realign_params) passes it to the function up to    *)
(* MaxPlotCalls times                                                       *)

Trajectories ==
    UNION { [1..n -> OptimizerResults] : n \in 1..MaxN }

InitPlot ==
    /\ pc = "returned"
    /\ realign_params \in Trajectories
    /\ rp = realign_params
    /\ n_vols = Len(realign_params)
    /\ img = Series(Len(realign_params))
    /\ reference = 0
    /\ smooth_fwhm = ScriptFwhm
    /\ bound = {}
    /\ data = <<>>
    /\ data_smooth = <<>>
    /\ ref_vol = ZeroVol
    /\ realigned_data = <<>>
    /\ i = 0
    /\ guess_params = zeros6
    /\ best_params = zeros6
    /\ resampled_vol = ZeroVol
    /\ calls = <<>>
    /\ err = "none"
    /\ saved = <<>>
    /\ shown = <<>>
    /\ exported = <<>>

PlotUnchanged ==
    UNCHANGED <<img, reference, smooth_fwhm, bound, data, data_smooth,
                n_vols, ref_vol, realign_params, realigned_data, i,
                guess_params, best_params, resampled_vol, calls, saved,
                exported>>

\* a call with mm = True (the default)
PlotCall ==
    /\ pc = "returned"
    /\ Len(shown) < MaxPlotCalls
    /\ plot_realignment_parameters(TRUE)
    /\ pc' = "returned"
    /\ PlotUnchanged

\* a call with mm = False
PlotCallNoMm ==
    /\ pc = "returned"
    /\ Len(shown) < MaxPlotCalls
    /\ plot_realignment_parameters(FALSE)
    /\ pc' = "raised"
    /\ PlotUnchanged

NextPlot ==
    \/ PlotCall
    \/ PlotCallNoMm

SpecPlot == InitPlot /\ [][NextPlot]_vars

----------------------------------------------------------------------------
(* Vocabulary of the properties *)

IsOpt(k) == calls[k].op = "optimize"

IsRes(k) == calls[k].op = "resample"

\* the run is inside volume_4D_realign, past the allocation of its arrays
InLoop == pc \in {"loop", "optimize", "resample", "accumulate", "save", "return"}

\* volume_4D_realign has returned
Completed == pc \in {"returned", "plotted", "exported"}

ValidReference == reference \in {0, 1}

SomeCallFailed == \E k \in 1..Len(calls) : ~calls[k].ok

----------------------------------------------------------------------------
(* C1 *)

\* C1: every optimizer call for volume 0 is given the zero 6-vector as its
\* initial guess, and every optimizer call for a volume i > 0 is given the
\* componentwise negation of the vector the optimizer returned for volume
\* i-1, which is the vector stored in trajectory row i-1.
C1_WarmStartGuess ==
    \A k \in 1..Len(calls) :
        IsOpt(k) =>
            IF calls[k].idx = 0
            THEN calls[k].vec = zeros6
            ELSE /\ \E m \in 1..(k - 1) :
                       /\ IsOpt(m)
                       /\ calls[m].idx = calls[k].idx - 1
                       /\ calls[m].ok
                       /\ \A c \in 1..6 :
                            /\ calls[k].vec[c].a + calls[m].out[1][c].a = 0
                            /\ calls[k].vec[c].k = calls[m].out[1][c].k
                 /\ InLoop =>
                       \A c \in 1..6 :
                            /\ calls[k].vec[c].a
                                 + realign_params[calls[k].idx][c].a = 0
                            /\ calls[k].vec[c].k
                                 = realign_params[calls[k].idx][c].k

\* an optimizer call for volume 2 whose predecessor's estimate was not zero
C1_Witness ==
    \E k \in 1..Len(calls) :
        /\ IsOpt(k)
        /\ calls[k].idx = 2
        /\ calls[k].vec # zeros6
        /\ \E m \in 1..Len(calls) : IsOpt(m) /\ calls[m].idx = 0

----------------------------------------------------------------------------
(* C2 *)

\* the volume the reference mode designates, taken from the image
SelectedReference ==
    IF reference = 0 THEN img[1] ELSE img[(Len(img) \div 2) + 1]

\* C2: every optimizer call is given the reference volume selected before
\* the loop and the smoothed volume of its index; every resampler call
\* directly follows the optimizer call of the same index and is given the
\* vector that call returned, the same reference volume and the original
\* (unsmoothed) volume of that index.
C2_EstimateSmoothedResampleOriginal ==
    \A k \in 1..Len(calls) :
        /\ calls[k].ref = SelectedReference
        /\ calls[k].ref = calls[1].ref
        /\ IsOpt(k) =>
              /\ calls[k].moving.kind = "smooth"
              /\ calls[k].moving.fwhm = smooth_fwhm
              /\ calls[k].moving.idx = calls[k].idx
        /\ IsRes(k) =>
              /\ k > 1
              /\ IsOpt(k - 1)
              /\ calls[k - 1].ok
              /\ calls[k - 1].idx = calls[k].idx
              /\ calls[k].vec = calls[k - 1].out[1]
              /\ calls[k].moving = img[calls[k].idx + 1]
              /\ calls[k].moving.kind = "orig"

\* a run with the middle volume as reference that has resampled volume 2
C2_Witness ==
    /\ reference = 1
    /\ \E k \in 1..Len(calls) : IsRes(k) /\ calls[k].idx = 2 /\ calls[k].ok

----------------------------------------------------------------------------
(* C3 *)

----------------------------------------------------------------------------
(* C4 *)

\* C4: with smooth_fwhm = 0 the smoothed series is defined and identical to
\* the original series, and the run reaches no error state for want of it.
C4_ZeroWidthSmoothedIsOriginal ==
    (smooth_fwhm = 0 /\ ValidReference /\ pc # "start") =>
        /\ "data_smooth" \in bound
        /\ data_smooth = data
        /\ err # "NameError"

----------------------------------------------------------------------------
(* C5 *)

\* C5: with a reference mode other than 0 and 1 the run raises an explicit
\* invalid-reference-mode error at reference selection: it never gets past
\* the selection, makes no optimizer or resampler call, and returns no
\* trajectory.
C5_InvalidReferenceRejected ==
    ~ValidReference =>
        /\ pc \in {"start", "select", "raised"}
        /\ pc = "raised" => err = "InvalidReferenceMode"
        /\ calls = <<>>
        /\ rp = <<>>

----------------------------------------------------------------------------
(* C6 *)

\* C6: once an optimizer or resampler call has failed, the run has ended
\* with that failure: the failed call is the last call made (none for a
\* later index or for the same one), no image was written, and nothing was
\* returned, plotted or exported, so no row substituted for the failed
\* volume reaches the caller.
C6_FailurePropagates ==
    SomeCallFailed =>
        /\ pc = "raised"
        /\ err \in {"OptimizerError", "ResamplerError"}
        /\ ~calls[Len(calls)].ok
        /\ \A k \in 1..(Len(calls) - 1) :
              /\ calls[k].ok
              /\ calls[k].idx <= calls[Len(calls)].idx
        /\ calls[Len(calls)].idx = i
        /\ saved = <<>>
        /\ rp = <<>>
        /\ shown = <<>>
        /\ exported = <<>>

\* the optimizer failed on volume 1 of a series with later volumes
C6_WitnessOptimizer ==
    /\ SomeCallFailed
    /\ err = "OptimizerError"
    /\ i = 1
    /\ n_vols = 3

----------------------------------------------------------------------------
(* C7 *)

\* C7: plot_realignment_parameters leaves the array passed by the caller as
\* it was, and two calls on the same trajectory plot the same values.
C7_PlotConversionIsPure ==
    /\ Len(shown) >= 1 => rp = realign_params
    /\ Len(shown) >= 2 => shown[2] = shown[1]

----------------------------------------------------------------------------
(* C8 *)

\* C8: the table the export step writes is the raw trajectory that
\* volume_4D_realign returned.
C8_ExportIsRawTrajectory ==
    pc = "exported" =>
        /\ exported = <<realign_params>>
        /\ \A j \in 1..n_vols : exported[1][j] = calls[2 * j - 1].out[1]

----------------------------------------------------------------------------
(* C9 *)

\* the index of the reference volume in the series
RefIndex == ref_vol.idx

ReferenceSelected == pc \notin {"start", "select"}

OddN == n_vols % 2 = 1

\* C9, first part: mode 0 selects index 0 and mode 1 selects floor(N/2),
\* the m with 2m <= N < 2m + 2.
C9_SelectorIndex ==
    /\ (ReferenceSelected /\ reference = 0) =>
          /\ "ref_vol" \in bound
          /\ ref_vol = img[1]
          /\ RefIndex = 0
    /\ (ReferenceSelected /\ reference = 1) =>
          /\ "ref_vol" \in bound
          /\ ref_vol = img[RefIndex + 1]
          /\ 2 * RefIndex <= n_vols
          /\ n_vols < 2 * RefIndex + 2

\* C9 as stated: ... and for odd N the MIDDLE index lies strictly after the
\* midpoint (N-1)/2 of the indices 0..N-1.
C9_OddMiddleAfterMidpoint ==
    /\ C9_SelectorIndex
    /\ (ReferenceSelected /\ reference = 1 /\ OddN) =>
          2 * RefIndex > n_vols - 1

\* C9 as amended: ... and for odd N the MIDDLE index is the midpoint
\* (N-1)/2 itself; it lies strictly after the midpoint for even N.
C9_MiddleIndexAmended ==
    /\ C9_SelectorIndex
    /\ (ReferenceSelected /\ reference = 1 /\ OddN) =>
          2 * RefIndex = n_vols - 1
    /\ (ReferenceSelected /\ reference = 1 /\ ~OddN) =>
          2 * RefIndex > n_vols - 1

\* the middle volume of a three-volume series has been selected
C9_Witness ==
    /\ ReferenceSelected
    /\ reference = 1
    /\ n_vols = 3
    /\ RefIndex = 1

----------------------------------------------------------------------------
(* C10 *)

\* C10: the calls made are optimize(0), resample(0), optimize(1), ... in
\* this order; a run that got through the loop made exactly one optimizer
\* and one resampler call per index, the reference index included; and when
\* the optimizer is about to be called for volume i the results of all
\* earlier volumes are in the trajectory.
C10_CallSequence ==
    /\ \A k \in 1..Len(calls) :
          /\ calls[k].idx = (k - 1) \div 2
          /\ IF k % 2 = 1 THEN IsOpt(k) ELSE IsRes(k)
    /\ (pc \in {"save", "return"} \/ Completed) =>
          /\ Len(calls) = 2 * Len(img)
          /\ ~SomeCallFailed
    /\ pc = "optimize" =>
          /\ Len(calls) = 2 * i
          /\ \A j \in 1..i : realign_params[j] = calls[2 * j - 1].out[1]

\* a failure-free three-volume run whose reference is volume 1 has returned
C10_Witness ==
    /\ pc = "returned"
    /\ reference = 1
    /\ Len(calls) = 6
    /\ calls[3].moving.idx = ref_vol.idx

====
